---- MODULE Spec2Model ----
(***************************************************************************)
(* A model of yab's client-side call layer:                                *)
(*   - thrift/response.go: the response envelope decoder and the two       *)
(*     result resolvers, ResponseBytesToMap and CheckSuccess;              *)
(*   - transport/http.go as exercised by transport/http_test.go: the HTTP  *)
(*     constructor and Call.                                               *)
(* Error messages are modelled as sequences of tokens (the words and       *)
(* punctuation of the formatted text), so that "the message contains ..."  *)
(* is a check on the formatted text.                                       *)
(***************************************************************************)
EXTENDS Integers, Sequences, FiniteSets, TLC

\* thrift: the method's metadata, the response bytes, and what CheckSuccess and
\* ResponseBytesToMap returned for them.
VARIABLES fspec, responseBytes, checked, extracted

\* transport: the constructor's options and results, the position of the Call,
\* the clock, the context, the request, the outbound request and the wire, the
\* test server, and what Call returned.
VARIABLES opts, transport, ctorErr, tpc, now, ticks, ctx, r, invokedAt, builtAt,
          outReq, wire, svr, lastReq, resp, callErr

tvars == <<fspec, responseBytes, checked, extracted>>

hvars == <<opts, transport, ctorErr, tpc, now, ticks, ctx, r, invokedAt, builtAt,
           outReq, wire, svr, lastReq, resp, callErr>>

vars == <<tvars, hvars>>

\* Longest wire struct (number of fields) the thrift specification enumerates.
MaxFields == 2

----------------------------------------------------------------------------
(* Token sequences *)

NilErr == <<>>

\* strings.Contains on token sequences: pat occurs in msg as a contiguous run.
Contains(msg, pat) ==
    \E i \in 1..(Len(msg) + 1) :
        /\ i + Len(pat) - 1 <= Len(msg)
        /\ SubSeq(msg, i, i + Len(pat) - 1) = pat

RECURSIVE Flatten(_)
Flatten(ss) == IF ss = <<>> THEN <<>> ELSE Head(ss) \o Flatten(Tail(ss))

----------------------------------------------------------------------------
(* thrift: function metadata and wire values *)

\* Field ids seen on the wire (int16): 0 is the result slot.
FieldIDs == {0, 1, 7}

\* wire.Value: a type code and a payload.
WireValues ==
    { [t |-> "I32", n |-> 1], [t |-> "Binary", n |-> 2], [t |-> "Struct", n |-> 3] }

WireFields == [ID : FieldIDs, Value : WireValues]

RECURSIVE SeqsUpTo(_, _)
SeqsUpTo(S, n) ==
    IF n = 0 THEN {<<>>}
    ELSE LET shorter == SeqsUpTo(S, n - 1)
         IN shorter \cup {Append(s, x) : s \in {t \in shorter : Len(t) = n - 1}, x \in S}

\* The decoded response bytes: either malformed or the encoding of a struct.
ResponseBytes ==
    {[malformed |-> TRUE, fields |-> <<>>]}
        \cup [malformed : {FALSE}, fields : SeqsUpTo(WireFields, MaxFields)]

\* compile.FieldSpec of a declared exception.
ExNotFound == [ID |-> 1, Name |-> "notFound", Type |-> "NotFound"]
ExEx == [ID |-> 7, Name |-> "Ex", Type |-> "ExType"]

ExceptionLists == { <<>>, <<ExEx>>, <<ExNotFound, ExEx>> }

NilType == "nil"
ReturnTypes == {"i32", "string"}

\* compile.ResultSpec, nil or {ReturnType, Exceptions}.
NilResultSpec == [isNil |-> TRUE, ReturnType |-> NilType, Exceptions |-> <<>>]
ResultSpecs ==
    {NilResultSpec}
        \cup [isNil : {FALSE}, ReturnType : ReturnTypes \cup {NilType},
              Exceptions : ExceptionLists]

\* compile.FunctionSpec
FunctionSpecs == [ResultSpec : ResultSpecs]

\* The wire type code of a compiled type.
TypeCode(ty) ==
    CASE ty = "i32" -> "I32"
      [] ty = "string" -> "Binary"
      [] OTHER -> "Struct"

----------------------------------------------------------------------------
(* thrift: formatting *)

IdStr(id) == CASE id = 0 -> "0" [] id = 1 -> "1" [] id = 7 -> "7" [] OTHER -> "?"

NumStr(n) == CASE n = 1 -> "1" [] n = 2 -> "2" [] n = 3 -> "3" [] OTHER -> "?"

\* %v of a wire.Value
FmtValue(v) == <<("T" \o v.t), "(", NumStr(v.n), ")">>

\* %+v of one wire.Field
FmtField(f) == <<"{", "ID", ":", IdStr(f.ID), "Value", ":">> \o FmtValue(f.Value) \o <<"}">>

\* %+v of []wire.Field
FmtFields(fs) == <<"[">> \o Flatten([i \in 1..Len(fs) |-> FmtField(fs[i])]) \o <<"]">>

----------------------------------------------------------------------------
(* thrift: decoding *)

CodecErr == <<"unexpected", "EOF">>

responseBytesToWire(bytes) ==
    IF bytes.malformed
    THEN [w |-> <<>>,
          err |-> <<"cannot", "parse", "Thrift", "struct", "from", "response", ":">>
                      \o CodecErr]
    ELSE [w |-> bytes.fields, err |-> NilErr]

\* id -> FieldSpec of the declared exceptions; a later declaration of an id wins.
getFieldMap(exceptions) ==
    [id \in {exceptions[i].ID : i \in 1..Len(exceptions)} |->
        LET last == CHOOSE i \in 1..Len(exceptions) :
                        /\ exceptions[i].ID = id
                        /\ \A j \in (i + 1)..Len(exceptions) : exceptions[j].ID # id
        IN exceptions[last]]

\* The native value of a wire value read as type ty; fails on another type code.
valueFromWire(ty, v) ==
    IF v.t # TypeCode(ty)
    THEN [value |-> [type |-> NilType, val |-> 0],
          err |-> <<"type", "mismatch", ":", "expected", TypeCode(ty), "got", v.t>>]
    ELSE [value |-> [type |-> ty, val |-> v.n], err |-> NilErr]

EmptyMap == <<>>

RbtmFail(e) == [result |-> EmptyMap, nilResult |-> TRUE, err |-> e]

RECURSIVE rbtmLoop(_, _, _, _)
rbtmLoop(spec, specs, fs, result) ==
    IF fs = <<>> THEN [result |-> result, nilResult |-> FALSE, err |-> NilErr]
    ELSE
      LET f == Head(fs) IN
      IF f.ID = 0 THEN
        IF spec.ResultSpec.isNil \/ spec.ResultSpec.ReturnType = NilType
        THEN RbtmFail(<<"got", "unexpected", "result", "for", "void", "method", ":">>
                          \o FmtValue(f.Value))
        ELSE LET d == valueFromWire(spec.ResultSpec.ReturnType, f.Value) IN
             IF d.err # NilErr
             THEN RbtmFail(<<"failed", "to", "parse", "result", "field", IdStr(f.ID), ":">>
                               \o d.err)
             ELSE rbtmLoop(spec, specs, Tail(fs), ("result" :> d.value) @@ result)
      ELSE
        IF f.ID \notin DOMAIN specs
        THEN RbtmFail(<<"got", "unknown", "exception", "with", "ID", IdStr(f.ID), ":">>
                          \o FmtValue(f.Value))
        ELSE LET exSpec == specs[f.ID]
                 d == valueFromWire(exSpec.Type, f.Value) IN
             IF d.err # NilErr
             THEN RbtmFail(<<"failed", "to", "parse", "result", "field", IdStr(f.ID), ":">>
                               \o d.err)
             ELSE rbtmLoop(spec, specs, Tail(fs), (exSpec.Name :> d.value) @@ result)

\* ResponseBytesToMap with the exception table built only for methods that
\* declare a return type.
ResponseBytesToMap_NoVoidExceptions(spec, bytes) ==
    LET dec == responseBytesToWire(bytes)
        specs == IF ~spec.ResultSpec.isNil /\ spec.ResultSpec.ReturnType # NilType
                 THEN getFieldMap(spec.ResultSpec.Exceptions)
                 ELSE EmptyMap
    IN IF dec.err # NilErr THEN RbtmFail(dec.err)
       ELSE rbtmLoop(spec, specs, dec.w, EmptyMap)

ResponseBytesToMap(spec, bytes) ==
    LET dec == responseBytesToWire(bytes)
        specs == IF ~spec.ResultSpec.isNil
                 THEN getFieldMap(spec.ResultSpec.Exceptions)
                 ELSE EmptyMap
    IN IF dec.err # NilErr THEN RbtmFail(dec.err)
       ELSE rbtmLoop(spec, specs, dec.w, EmptyMap)

\* checkException without the "method has no exceptions" case.
checkException_NoEmptyCase(spec, fieldID) ==
    LET exs == spec.ResultSpec.Exceptions
        hits == {i \in 1..Len(exs) : exs[i].ID = fieldID}
    IN IF hits = {} THEN <<"unknown">>
       ELSE LET first == CHOOSE i \in hits : \A j \in hits : i <= j
            IN <<exs[first].Name, exs[first].Type>>

checkException(spec, fieldID) ==
    IF spec.ResultSpec.isNil \/ Len(spec.ResultSpec.Exceptions) = 0
    THEN <<"unknown", ",", "method", "has", "no", "exceptions">>
    ELSE LET exs == spec.ResultSpec.Exceptions
             hits == {i \in 1..Len(exs) : exs[i].ID = fieldID}
         IN IF hits = {} THEN <<"unknown">>
            ELSE LET first == CHOOSE i \in hits : \A j \in hits : i <= j
                 IN <<exs[first].Name, exs[first].Type>>

\* CheckSuccess that looks at the first field only, for a method with a return
\* type, and never compares the field count with 1.
CheckSuccess_FirstFieldOnly(spec, bytes) ==
    LET dec == responseBytesToWire(bytes) IN
    IF dec.err # NilErr
    THEN <<"could", "not", "deserialize", "result", ":">> \o dec.err
    ELSE
      LET w == dec.w IN
      IF spec.ResultSpec.isNil \/ spec.ResultSpec.ReturnType = NilType
      THEN IF Len(w) = 0 THEN NilErr
           ELSE IF w[1].ID = 0
           THEN <<"void", "method", "got", "unexpected", "result", ",", "fields", ":">>
                    \o FmtFields(w)
           ELSE <<"void", "method", "got", "exception", ":">>
                    \o checkException(spec, w[1].ID)
      ELSE IF Len(w) = 0
      THEN <<"method", "with", "return", "did", "not", "get", "1", "field", "in",
             "result", ":">> \o FmtFields(w)
      ELSE IF w[1].ID # 0
      THEN <<"method", "with", "return", "got", "exception", ":">>
               \o checkException(spec, w[1].ID)
      ELSE NilErr

\* CheckSuccess whose void branch reports every non-empty envelope as an exception.
CheckSuccess_VoidAlwaysException(spec, bytes) ==
    LET dec == responseBytesToWire(bytes) IN
    IF dec.err # NilErr
    THEN <<"could", "not", "deserialize", "result", ":">> \o dec.err
    ELSE
      LET w == dec.w IN
      IF spec.ResultSpec.isNil \/ spec.ResultSpec.ReturnType = NilType
      THEN IF Len(w) = 0 THEN NilErr
           ELSE <<"void", "method", "got", "exception", ":">>
                    \o checkException(spec, w[1].ID)
      ELSE IF Len(w) # 1
      THEN <<"method", "with", "return", "did", "not", "get", "1", "field", "in",
             "result", ":">> \o FmtFields(w)
      ELSE IF w[1].ID # 0
      THEN <<"method", "with", "return", "got", "exception", ":">>
               \o checkException(spec, w[1].ID)
      ELSE NilErr

CheckSuccess(spec, bytes) ==
    LET dec == responseBytesToWire(bytes) IN
    IF dec.err # NilErr
    THEN <<"could", "not", "deserialize", "result", ":">> \o dec.err
    ELSE
      LET w == dec.w IN
      IF spec.ResultSpec.isNil \/ spec.ResultSpec.ReturnType = NilType
      THEN IF Len(w) = 0 THEN NilErr
           ELSE IF w[1].ID = 0
           THEN <<"void", "method", "got", "unexpected", "result", ",", "fields", ":">>
                    \o FmtFields(w)
           ELSE <<"void", "method", "got", "exception", ":">>
                    \o checkException(spec, w[1].ID)
      ELSE IF Len(w) # 1
      THEN <<"method", "with", "return", "did", "not", "get", "1", "field", "in",
             "result", ":">> \o FmtFields(w)
      ELSE IF w[1].ID # 0
      THEN <<"method", "with", "return", "got", "exception", ":">>
               \o checkException(spec, w[1].ID)
      ELSE NilErr

----------------------------------------------------------------------------
(* thrift: one resolution of one response *)


TInit ==
    /\ fspec \in FunctionSpecs
    /\ responseBytes \in ResponseBytes
    /\ checked = [done |-> FALSE, err |-> NilErr]
    /\ extracted = [done |-> FALSE, result |-> EmptyMap, nilResult |-> TRUE, err |-> NilErr]

DoCheckSuccess ==
    /\ ~checked.done
    /\ checked' = [done |-> TRUE, err |-> CheckSuccess(fspec, responseBytes)]
    /\ UNCHANGED <<fspec, responseBytes, extracted>>
    /\ UNCHANGED hvars

DoResponseBytesToMap ==
    /\ ~extracted.done
    /\ LET res == ResponseBytesToMap(fspec, responseBytes)
       IN extracted' = [done |-> TRUE, result |-> res.result,
                        nilResult |-> res.nilResult, err |-> res.err]
    /\ UNCHANGED <<fspec, responseBytes, checked>>
    /\ UNCHANGED hvars

TNext == DoCheckSuccess \/ DoResponseBytesToMap

----------------------------------------------------------------------------
(* thrift: properties *)

Decodes == ~responseBytes.malformed
Fields == responseBytes.fields
HasReturnType == ~fspec.ResultSpec.isNil /\ fspec.ResultSpec.ReturnType # NilType
Declared == fspec.ResultSpec.Exceptions
DeclaredWithID(id) == {i \in 1..Len(Declared) : Declared[i].ID = id}

VoidResultText == <<"unexpected", "result", "for", "void", "method">>
VoidGotResultText == <<"void", "method", "got", "unexpected", "result">>
FieldCountText == <<"did", "not", "get", "1", "field", "in", "result">>

\* C1: for an envelope that decodes, CheckSuccess returns no error if and only
\* if the envelope is a well-formed success: a void method with zero fields, or
\* a method with a return type with exactly one field, of id 0.
C1_CheckSuccessIffSuccessEnvelope ==
    (checked.done /\ Decodes) =>
        ( checked.err = NilErr
          <=> \/ ~HasReturnType /\ Len(Fields) = 0
              \/ HasReturnType /\ Len(Fields) = 1 /\ Fields[1].ID = 0 )

\* C1 witness: CheckSuccess has accepted a one-field id-0 envelope of a method
\* with a return type.
C1_Witness ==
    /\ checked.done /\ Decodes /\ HasReturnType
    /\ Len(Fields) = 1 /\ Fields[1].ID = 0
    /\ checked.err = NilErr

\* C2: for a well-formed envelope whose value decodes, ResponseBytesToMap
\* returns no error and a map with at most one entry: {"result": decode(v)} for
\* the id-0 field of a method with a return type, {name: decode(v)} for the
\* field of a declared exception, and the empty map for a void method's
\* zero-field envelope.
C2_ExtractWellFormed ==
    (extracted.done /\ Decodes) =>
        /\ (HasReturnType /\ Len(Fields) = 1 /\ Fields[1].ID = 0
              /\ valueFromWire(fspec.ResultSpec.ReturnType, Fields[1].Value).err = NilErr)
           => /\ extracted.err = NilErr /\ ~extracted.nilResult
              /\ extracted.result =
                   ("result" :> valueFromWire(fspec.ResultSpec.ReturnType,
                                              Fields[1].Value).value)
        /\ (Len(Fields) = 1 /\ Fields[1].ID # 0)
           => \A i \in DeclaredWithID(Fields[1].ID) :
                 valueFromWire(Declared[i].Type, Fields[1].Value).err = NilErr
                 => /\ extracted.err = NilErr /\ ~extracted.nilResult
                    /\ extracted.result =
                         (Declared[i].Name :>
                            valueFromWire(Declared[i].Type, Fields[1].Value).value)
        /\ (~HasReturnType /\ Len(Fields) = 0)
           => /\ extracted.err = NilErr /\ ~extracted.nilResult
              /\ extracted.result = EmptyMap
        /\ Len(Fields) <= 1 => Cardinality(DOMAIN extracted.result) <= 1

\* C2 witness: a void method's declared exception has been extracted under the
\* exception's name.
C2_Witness ==
    /\ extracted.done /\ Decodes /\ ~HasReturnType
    /\ Len(Fields) = 1 /\ Fields[1].ID = ExEx.ID
    /\ DeclaredWithID(ExEx.ID) # {}
    /\ extracted.err = NilErr
    /\ DOMAIN extracted.result = {ExEx.Name}

\* C3: for a method with a return type and an envelope with two fields, both
\* CheckSuccess and ResponseBytesToMap fail, reporting the field count, and
\* ResponseBytesToMap returns no map.
C3_TwoFieldsBothFail ==
    (checked.done /\ extracted.done /\ Decodes /\ HasReturnType /\ Len(Fields) = 2) =>
        /\ Contains(checked.err, FieldCountText)
        /\ extracted.err # NilErr
        /\ extracted.nilResult

\* C4 as stated: for a void method and an envelope containing a field of id 0,
\* both operations fail with a message containing "unexpected result for void
\* method".
C4_VoidResultSameText ==
    (checked.done /\ extracted.done /\ Decodes /\ ~HasReturnType
       /\ \E i \in 1..Len(Fields) : Fields[i].ID = 0) =>
        /\ Contains(checked.err, VoidResultText)
        /\ Contains(extracted.err, VoidResultText)

\* C4 amended: for a void method and an envelope containing a field of id 0,
\* both operations fail and ResponseBytesToMap returns no map; when the id-0
\* field is the first field, ResponseBytesToMap's message contains "unexpected
\* result for void method" and CheckSuccess's contains "void method got
\* unexpected result" followed by all the fields.
C4_VoidResultBothFail ==
    (checked.done /\ extracted.done /\ Decodes /\ ~HasReturnType
       /\ \E i \in 1..Len(Fields) : Fields[i].ID = 0) =>
        /\ checked.err # NilErr
        /\ extracted.err # NilErr /\ extracted.nilResult
        /\ Fields[1].ID = 0 =>
              /\ Contains(extracted.err, VoidResultText \o <<":">> \o FmtValue(Fields[1].Value))
              /\ Contains(checked.err, VoidGotResultText)
              /\ Contains(checked.err, FmtFields(Fields))
              /\ ~Contains(checked.err, VoidResultText)

\* C4 witness: both operations have run on a void method's envelope whose
\* first field has id 0.
C4_Witness ==
    /\ checked.done /\ extracted.done /\ Decodes /\ ~HasReturnType
    /\ Len(Fields) >= 1 /\ Fields[1].ID = 0
    /\ Contains(checked.err, VoidGotResultText)
    /\ Contains(extracted.err, VoidResultText)

\* C5: for a void method, CheckSuccess on an envelope with more than one field
\* fails with a violation that reports all the fields, whatever the first
\* field's id, and does not classify the envelope as an exception.
C5_VoidManyFieldsViolation ==
    (checked.done /\ Decodes /\ ~HasReturnType /\ Len(Fields) > 1) =>
        /\ Contains(checked.err, FmtFields(Fields))
        /\ ~Contains(checked.err, <<"got", "exception">>)

\* C6: for an envelope with exactly one field, of nonzero id, CheckSuccess's
\* error names the exception: the declared name and type when the id is
\* declared, "unknown, method has no exceptions" when the method declares none,
\* and plain "unknown" when it declares some but not this id; for an undeclared
\* id ResponseBytesToMap fails with an unknown-exception error naming the id
\* and returns no map.
C6_ExceptionNamed ==
    (Decodes /\ Len(Fields) = 1 /\ Fields[1].ID # 0) =>
        LET id == Fields[1].ID
            prefix == IF HasReturnType
                      THEN <<"method", "with", "return", "got", "exception", ":">>
                      ELSE <<"void", "method", "got", "exception", ":">>
        IN /\ checked.done =>
                /\ \A i \in DeclaredWithID(id) :
                      checked.err = prefix \o <<Declared[i].Name, Declared[i].Type>>
                /\ Len(Declared) = 0 =>
                      checked.err = prefix \o <<"unknown", ",", "method", "has", "no",
                                                "exceptions">>
                /\ (Len(Declared) > 0 /\ DeclaredWithID(id) = {}) =>
                      checked.err = prefix \o <<"unknown">>
           /\ (extracted.done /\ DeclaredWithID(id) = {}) =>
                /\ extracted.nilResult
                /\ Contains(extracted.err,
                            <<"got", "unknown", "exception", "with", "ID", IdStr(id)>>)
                /\ \A i \in 1..Len(Declared) :
                      ~Contains(extracted.err, <<Declared[i].Name>>)

\* C6 witness: both operations have run on a one-field envelope whose id is
\* not among the exceptions the method declares.
C6_Witness ==
    /\ checked.done /\ extracted.done /\ Decodes
    /\ Len(Fields) = 1 /\ Fields[1].ID = ExNotFound.ID
    /\ Declared = <<ExEx>>
    /\ Contains(checked.err, <<"exception", ":", "unknown">>)
    /\ extracted.err # NilErr

----------------------------------------------------------------------------
(* transport: time *)

\* Clock units per millisecond (the clock is finer than the TTL header).
UnitsPerMs == 2
\* Number of clock advances a behaviour makes before and during one Call.
MaxTicks == 3

\* timeout := time.Second when the context has no deadline.
DefaultTTLMs == 1000

Second == 1000 * UnitsPerMs
TickSteps == {1, 100 * UnitsPerMs, 3 * Second}
\* context.WithTimeout durations: 3 s as in the test, and 1.5 ms.
Timeouts == {3 * Second, UnitsPerMs + 1}

\* int(d / time.Millisecond): integer division truncating toward zero.
WholeMs(d) == IF d >= 0 THEN d \div UnitsPerMs ELSE -((-d) \div UnitsPerMs)

Max(a, b) == IF a >= b THEN a ELSE b

----------------------------------------------------------------------------
(* transport: options, requests, errors *)

HTTPOptions ==
    [URLs : {<<>>, <<"http://a/rpc">>, <<"http://a/rpc", "http://b/rpc">>},
     SourceService : {"", "source"},
     TargetService : {"", "target"}]

errNoURLs == <<"no", "URLs">>
errMissingTarget == <<"missing", "target">>

NilTransport == [isNil |-> TRUE, opts |-> [URLs |-> <<>>, SourceService |-> "",
                                           TargetService |-> ""]]

\* HTTP(opts) with the target check before the URL check.
HTTP_TargetFirst(o) ==
    IF o.TargetService = "" THEN [transport |-> NilTransport, err |-> errMissingTarget]
    ELSE IF Len(o.URLs) = 0 THEN [transport |-> NilTransport, err |-> errNoURLs]
    ELSE [transport |-> [isNil |-> FALSE, opts |-> o], err |-> NilErr]

\* HTTP(opts): the constructor's validation.
HTTP(o) ==
    IF Len(o.URLs) = 0 THEN [transport |-> NilTransport, err |-> errNoURLs]
    ELSE IF o.TargetService = "" THEN [transport |-> NilTransport, err |-> errMissingTarget]
    ELSE [transport |-> [isNil |-> FALSE, opts |-> o], err |-> NilErr]

\* The values of the test hook header "fail" ("" when the header is absent).
FailModes == {"", "kill_conn", "bad_req", "server_err", "flush_and_kill"}

ReqHeaders(fail) == IF fail = "" THEN EmptyMap ELSE ("fail" :> fail)

Requests ==
    {[Method |-> "method", Body |-> b, Headers |-> ReqHeaders(f)] :
        b \in {<<1, 2, 3>>, <<>>}, f \in FailModes}

NilRequest == [Method |-> "", Body |-> <<>>, Headers |-> EmptyMap]
NilOutReq == [URL |-> "", Body |-> <<>>, Headers |-> EmptyMap]
NilResponse == [isNil |-> TRUE, Body |-> <<>>, Headers |-> EmptyMap]

Background == [made |-> TRUE, hasDeadline |-> FALSE, deadline |-> 0, created |-> 0]
NoContext == [made |-> FALSE, hasDeadline |-> FALSE, deadline |-> 0, created |-> 0]

DeadlineErr == <<"context", "deadline", "exceeded">>
EOFErr(url) == <<"Post", url, ":", "EOF">>
UnexpectedEOFErr == <<"unexpected", "EOF">>
StatusErr(code) == <<"non-success", "response", "code", ":", ToString(code)>>

IsSuccessStatus(code) == code \div 100 = 2

\* The time-to-live computed from the creation instant instead of the present.
TTLMillis_FromCreation(c, t) ==
    IF c.hasDeadline THEN WholeMs(c.deadline - c.created) ELSE DefaultTTLMs

\* The time-to-live header's value at clock time t, in whole milliseconds.
TTLMillis(c, t) ==
    IF c.hasDeadline THEN WholeMs(c.deadline - t) ELSE DefaultTTLMs

\* The outbound request's headers: the request's own, plus the RPC metadata.
OutHeaders(o, req, ttl) ==
    ("RPC-Service" :> o.TargetService)
        @@ (IF o.SourceService = "" THEN EmptyMap ELSE ("RPC-Caller" :> o.SourceService))
        @@ ("RPC-Procedure" :> req.Method)
        @@ ("Context-TTL-MS" :> ToString(ttl))
        @@ req.Headers

NewServer == [status |-> 0, headers |-> EmptyMap, body |-> <<>>,
              complete |-> FALSE, killed |-> FALSE]

----------------------------------------------------------------------------
(* transport: one constructor call and one Call against the test server *)


HInit ==
    /\ opts \in HTTPOptions
    /\ transport = NilTransport
    /\ ctorErr = NilErr
    /\ tpc = "new"
    /\ now = 0
    /\ ticks = 0
    /\ ctx = NoContext
    /\ r = NilRequest
    /\ invokedAt = 0
    /\ builtAt = 0
    /\ outReq = NilOutReq
    /\ wire = <<>>
    /\ svr = NewServer
    /\ lastReq = NilOutReq
    /\ resp = NilResponse
    /\ callErr = NilErr

Expired == ctx.hasDeadline /\ now >= ctx.deadline

\* got, err := HTTP(opts)
Construct ==
    /\ tpc = "new"
    /\ LET c == HTTP(opts)
       IN /\ transport' = c.transport
          /\ ctorErr' = c.err
          /\ tpc' = IF c.err = NilErr THEN "idle" ELSE "ctorFailed"
    /\ UNCHANGED tvars
    /\ UNCHANGED <<opts, now, ticks, ctx, r, invokedAt, builtAt, outReq, wire, svr,
                   lastReq, resp, callErr>>

\* The clock advances.
Tick ==
    /\ tpc \in {"idle", "called", "built", "inflight", "reading"}
    /\ ticks < MaxTicks
    /\ \E d \in TickSteps : now' = now + d
    /\ ticks' = ticks + 1
    /\ UNCHANGED tvars
    /\ UNCHANGED <<opts, transport, ctorErr, tpc, ctx, r, invokedAt, builtAt, outReq,
                   wire, svr, lastReq, resp, callErr>>

\* ctx := context.Background()
UseBackground ==
    /\ tpc = "idle" /\ ~ctx.made
    /\ ctx' = Background
    /\ UNCHANGED tvars
    /\ UNCHANGED <<opts, transport, ctorErr, tpc, now, ticks, r, invokedAt, builtAt,
                   outReq, wire, svr, lastReq, resp, callErr>>

\* ctx, _ := context.WithTimeout(context.Background(), d)
WithTimeout ==
    /\ tpc = "idle" /\ ~ctx.made
    /\ \E d \in Timeouts :
          ctx' = [made |-> TRUE, hasDeadline |-> TRUE, deadline |-> now + d,
                  created |-> now]
    /\ UNCHANGED tvars
    /\ UNCHANGED <<opts, transport, ctorErr, tpc, now, ticks, r, invokedAt, builtAt,
                   outReq, wire, svr, lastReq, resp, callErr>>

\* transport.Call(ctx, r) is entered.
CallInvoke ==
    /\ tpc = "idle" /\ ctx.made
    /\ r' \in Requests
    /\ invokedAt' = now
    /\ tpc' = "called"
    /\ UNCHANGED tvars
    /\ UNCHANGED <<opts, transport, ctorErr, now, ticks, ctx, builtAt, outReq, wire,
                   svr, lastReq, resp, callErr>>

\* Call builds the one outbound request: an endpoint, the body, the headers.
CallBuild ==
    /\ tpc = "called"
    /\ \E i \in 1..Len(transport.opts.URLs) :
          outReq' = [URL |-> transport.opts.URLs[i], Body |-> r.Body,
                     Headers |-> OutHeaders(transport.opts, r, TTLMillis(ctx, now))]
    /\ builtAt' = now
    /\ tpc' = "built"
    /\ UNCHANGED tvars
    /\ UNCHANGED <<opts, transport, ctorErr, now, ticks, ctx, r, invokedAt, wire, svr,
                   lastReq, resp, callErr>>

\* The request goes on the wire, unless the deadline has already passed.
CallSend ==
    /\ tpc = "built" /\ ~Expired
    /\ wire' = Append(wire, outReq)
    /\ tpc' = "inflight"
    /\ UNCHANGED tvars
    /\ UNCHANGED <<opts, transport, ctorErr, now, ticks, ctx, r, invokedAt, builtAt,
                   outReq, svr, lastReq, resp, callErr>>

Handling(mode) ==
    /\ Len(wire) = 1
    /\ svr.status = 0 /\ ~svr.killed /\ ~svr.complete
    /\ (IF "fail" \in DOMAIN wire[1].Headers THEN wire[1].Headers["fail"] ELSE "") = mode

\* case "bad_req": w.WriteHeader(http.StatusBadRequest)
ServerBadReq ==
    /\ Handling("bad_req")
    /\ svr' = [svr EXCEPT !.status = 400, !.complete = TRUE]
    /\ UNCHANGED tvars
    /\ UNCHANGED <<opts, transport, ctorErr, tpc, now, ticks, ctx, r, invokedAt,
                   builtAt, outReq, wire, lastReq, resp, callErr>>

\* case "server_err": w.WriteHeader(http.StatusInternalServerError)
ServerErr ==
    /\ Handling("server_err")
    /\ svr' = [svr EXCEPT !.status = 500, !.complete = TRUE]
    /\ UNCHANGED tvars
    /\ UNCHANGED <<opts, transport, ctorErr, tpc, now, ticks, ctx, r, invokedAt,
                   builtAt, outReq, wire, lastReq, resp, callErr>>

\* case "flush_and_kill": io.WriteString(w, "some data"); flusher.Flush()
ServerFlush ==
    /\ Handling("flush_and_kill")
    /\ svr' = [svr EXCEPT !.status = 200, !.body = <<"some data">>]
    /\ UNCHANGED tvars
    /\ UNCHANGED <<opts, transport, ctorErr, tpc, now, ticks, ctx, r, invokedAt,
                   builtAt, outReq, wire, lastReq, resp, callErr>>

\* case "kill_conn" (and the fallthrough of "flush_and_kill"): conn.Close()
ServerKill ==
    /\ Len(wire) = 1 /\ ~svr.killed /\ ~svr.complete
    /\ \/ Handling("kill_conn")
       \/ /\ "fail" \in DOMAIN wire[1].Headers
          /\ wire[1].Headers["fail"] = "flush_and_kill"
          /\ svr.status = 200
    /\ svr' = [svr EXCEPT !.killed = TRUE]
    /\ UNCHANGED tvars
    /\ UNCHANGED <<opts, transport, ctorErr, tpc, now, ticks, ctx, r, invokedAt,
                   builtAt, outReq, wire, lastReq, resp, callErr>>

\* The handler's normal path: record the request, set Custom-Header, write "ok".
ServerOK ==
    /\ Handling("")
    /\ lastReq' = wire[1]
    /\ svr' = [svr EXCEPT !.status = 200, !.headers = ("Custom-Header" :> "ok"),
                          !.body = <<"ok">>, !.complete = TRUE]
    /\ UNCHANGED tvars
    /\ UNCHANGED <<opts, transport, ctorErr, tpc, now, ticks, ctx, r, invokedAt,
                   builtAt, outReq, wire, resp, callErr>>

\* The exchange returns to Call: a transport error, or a status line and headers.
CallDoReturn ==
    /\ tpc = "inflight" /\ ~Expired
    /\ svr.status # 0 \/ svr.killed
    /\ IF svr.status = 0
       THEN /\ callErr' = EOFErr(outReq.URL)
            /\ tpc' = "returned"
       ELSE IF ~IsSuccessStatus(svr.status)
       THEN /\ callErr' = StatusErr(svr.status)
            /\ tpc' = "returned"
       ELSE /\ callErr' = callErr
            /\ tpc' = "reading"
    /\ UNCHANGED tvars
    /\ UNCHANGED <<opts, transport, ctorErr, now, ticks, ctx, r, invokedAt, builtAt,
                   outReq, wire, svr, lastReq, resp>>

\* Reading the body that ends with the connection's reset yields a Response.
CallReadBody_IgnoreReadError ==
    /\ tpc = "reading" /\ ~Expired
    /\ svr.complete \/ svr.killed
    /\ resp' = [isNil |-> FALSE, Body |-> svr.body, Headers |-> svr.headers]
    /\ callErr' = callErr
    /\ tpc' = "returned"
    /\ UNCHANGED tvars
    /\ UNCHANGED <<opts, transport, ctorErr, now, ticks, ctx, r, invokedAt, builtAt,
                   outReq, wire, svr, lastReq>>

\* Call reads the whole body: the Response, or the read's error.
CallReadBody ==
    /\ tpc = "reading" /\ ~Expired
    /\ svr.complete \/ svr.killed
    /\ IF svr.complete
       THEN /\ resp' = [isNil |-> FALSE, Body |-> svr.body, Headers |-> svr.headers]
            /\ callErr' = callErr
       ELSE /\ resp' = resp
            /\ callErr' = UnexpectedEOFErr
    /\ tpc' = "returned"
    /\ UNCHANGED tvars
    /\ UNCHANGED <<opts, transport, ctorErr, now, ticks, ctx, r, invokedAt, builtAt,
                   outReq, wire, svr, lastReq>>

\* The deadline aborts the exchange only until the status line has arrived.
DeadlineExceeded_NotWhileReading ==
    /\ ctx.hasDeadline
    /\ tpc \in {"built", "inflight"}
    /\ now' = Max(now, ctx.deadline)
    /\ callErr' = DeadlineErr
    /\ tpc' = "returned"
    /\ UNCHANGED tvars
    /\ UNCHANGED <<opts, transport, ctorErr, ticks, ctx, r, invokedAt, builtAt, outReq,
                   wire, svr, lastReq, resp>>

\* The deadline passes before a definitive reply: the exchange is aborted.
DeadlineExceeded ==
    /\ ctx.hasDeadline
    /\ tpc \in {"built", "inflight", "reading"}
    /\ now' = Max(now, ctx.deadline)
    /\ callErr' = DeadlineErr
    /\ tpc' = "returned"
    /\ UNCHANGED tvars
    /\ UNCHANGED <<opts, transport, ctorErr, ticks, ctx, r, invokedAt, builtAt, outReq,
                   wire, svr, lastReq, resp>>

HNext ==
    \/ Construct
    \/ Tick
    \/ UseBackground
    \/ WithTimeout
    \/ CallInvoke
    \/ CallBuild
    \/ CallSend
    \/ ServerBadReq
    \/ ServerErr
    \/ ServerFlush
    \/ ServerKill
    \/ ServerOK
    \/ CallDoReturn
    \/ CallReadBody
    \/ DeadlineExceeded

\* No resolution is in progress.
TQuiet ==
    /\ fspec = [ResultSpec |-> NilResultSpec]
    /\ responseBytes = [malformed |-> TRUE, fields |-> <<>>]
    /\ checked = [done |-> FALSE, err |-> NilErr]
    /\ extracted = [done |-> FALSE, result |-> EmptyMap, nilResult |-> TRUE, err |-> NilErr]

\* No transport has been constructed.
HQuiet ==
    /\ HInit
    /\ opts.URLs = <<>> /\ opts.SourceService = "" /\ opts.TargetService = ""

\* The resolution of one response by CheckSuccess and ResponseBytesToMap.
Init == TInit /\ HQuiet

Spec == Init /\ [][TNext]_vars

\* One construction and one Call.
InitHTTP == HInit /\ TQuiet

SpecHTTP == InitHTTP /\ [][HNext]_vars

\* The client's own steps are taken when enabled and the deadline's timer
\* fires; the server may stall.
FairSpecHTTP ==
    /\ SpecHTTP
    /\ WF_vars(CallBuild)
    /\ WF_vars(DeadlineExceeded)

----------------------------------------------------------------------------
(* transport: properties *)

Returned == tpc = "returned"
NonSuccessText == <<"non-success", "response", "code", ":">>

\* C7: Call returns a Response only after a complete reply with a 2xx status,
\* and then the Response's payload and headers are the reply's body and
\* headers; a non-2xx status gives an error containing "non-success response
\* code: <code>"; a reset before any reply and a reset after a flushed partial
\* body give I/O errors with different messages; a failing Call returns no
\* Response, and no Call returns both a Response and an error.
C7_CallOutcome ==
    /\ ~Returned => (resp.isNil /\ callErr = NilErr)
    /\ Returned =>
         /\ resp.isNil <=> callErr # NilErr
         /\ ~resp.isNil =>
               /\ svr.complete /\ IsSuccessStatus(svr.status)
               /\ resp.Body = svr.body
               /\ resp.Headers = svr.headers
         /\ callErr # DeadlineErr =>
               /\ (svr.status # 0 /\ ~IsSuccessStatus(svr.status)) =>
                     /\ Contains(callErr, NonSuccessText \o <<ToString(svr.status)>>)
                     /\ svr.status = 400 => Contains(callErr, NonSuccessText \o <<"400">>)
               /\ (svr.killed /\ svr.status = 0) =>
                     /\ Contains(callErr, <<"EOF">>)
                     /\ ~Contains(callErr, <<"unexpected">>)
               /\ (svr.killed /\ svr.status # 0) =>
                     Contains(callErr, <<"unexpected", "EOF">>)

\* C7 witness: Call has returned the test server's "ok" reply with its custom
\* header.
C7_Witness ==
    /\ Returned /\ ~resp.isNil /\ callErr = NilErr
    /\ resp.Body = <<"ok">>
    /\ resp.Headers = ("Custom-Header" :> "ok")

\* C8: every Call made with a deadline eventually returns, with exactly one of
\* a Response, a classified error or a deadline-exceeded error; when the
\* deadline has passed before a definitive reply the Call returns the
\* deadline-exceeded error; no Response is built from a partial body, and one
\* invocation puts at most one request on the wire.
C8_DeadlineCallReturns ==
    /\ [](Returned => (resp.isNil <=> callErr # NilErr))
    /\ [](~resp.isNil => (svr.complete /\ resp.Body = svr.body))
    /\ [](Len(wire) <= 1)
    /\ [][(Expired /\ tpc \in {"built", "inflight", "reading"} /\ tpc' = "returned")
            => (callErr' = DeadlineErr /\ resp'.isNil)]_vars
    /\ ((tpc = "called" /\ ctx.hasDeadline) ~> Returned)

\* C8 witness: the deadline has ended a Call whose reply was a flushed partial
\* body.
C8_Witness ==
    /\ Returned /\ callErr = DeadlineErr /\ resp.isNil
    /\ Len(wire) = 1
    /\ svr.status = 200 /\ svr.body = <<"some data">> /\ ~svr.complete

====
